---- MODULE Spec2Model ----
(***************************************************************************)
(* HubSpot MCP server (src/src/index.ts).                                  *)
(*                                                                         *)
(* One process: main() connects the stdio protocol loop (six registered    *)
(* tools, each a handler that makes one remote CRM call) and then looks at *)
(* process.argv for a direct command, which it runs and ends with          *)
(* process.exit.                                                           *)
(*                                                                         *)
(* Strings are atomic values; a text built by a template literal is the    *)
(* sequence of its pieces.  undefined is the value Undef.                  *)
(***************************************************************************)
EXTENDS Naturals, Sequences, FiniteSets, TLC

VARIABLES
    argv,        \* process.argv after the node binary and the script
    mainPc,      \* where main() is: start, connected, await, returned, exited
    serving,     \* the stdio transport is connected
    cliRequest,  \* the remote request main() issued
    cliCalls,    \* remote calls issued by main()
    cliOutcome,  \* what the remote call of main() gave
    exitCode,    \* the status process.exit was called with, {} while running
    stdout,      \* console.log of main()
    stderr,      \* console.error of main()
    call         \* the tool call being handled, IdleCall between calls; handlers
                 \* share nothing but the read-only client, so one call is followed

vars == <<argv, mainPc, serving, cliRequest, cliCalls, cliOutcome, exitCode,
          stdout, stderr, call>>

----------------------------------------------------------------------------
(* Bounds *)

MaxArgs == 4        \* tokens after the contact id on an update-contact command line
MaxResults == 2     \* contacts in one remote search / page response

----------------------------------------------------------------------------
(* Values *)

Undef == "<undefined>"

\* JavaScript truthiness of a string-or-undefined value: if (v), !v, v || d
Truthy(v) == v # Undef /\ v # ""

OrElse(v, d) == IF Truthy(v) THEN v ELSE d

EmptyMap == [k \in {} |-> ""]

Put(m, k, v) == [x \in DOMAIN m \cup {k} |-> IF x = k THEN v ELSE m[x]]

\* properties.k of a Record<string, string>: undefined when the key is absent
Get(m, k) == IF k \in DOMAIN m THEN m[k] ELSE Undef

SeqsUpTo(S, n) == UNION {[1..k -> S] : k \in 0..n}

\* args[i] of a JavaScript array, i counted from 0
At(args, i) == IF i < Len(args) THEN args[i + 1] ELSE Undef

ToolNames == {"create-contact", "get-contact", "search-contacts",
              "update-contact", "delete-contact", "get-last-contacts"}

\* z.string().email(): the strings of the model that have the shape of an address
EmailShaped == {"a@b.com"}

IsEmail(v) == v \in EmailShaped

----------------------------------------------------------------------------
(* The remote CRM: requests, responses, thrown errors *)

NoRequest == [api |-> "none"]

SearchLimit == 10
LastLimit == 2
GetLimit == 1

ListProperties == <<"firstname", "lastname", "email", "company", "phone", "createdate">>

\* What a catch clause can receive: a nullish value, or an object whose
\* message is absent, empty or a text.
Errors ==
    {[nullish |-> TRUE, message |-> Undef]}
        \cup {[nullish |-> FALSE, message |-> m] : m \in {Undef, "", "Boom"}}

\* Contact records the CRM returns: one with every property, one with none.
FullContact ==
    [id |-> "42",
     properties |-> [k \in {"email", "firstname", "lastname", "phone", "createdate"} |->
                        CASE k = "email" -> "a@b.com"
                          [] k = "firstname" -> "A"
                          [] k = "lastname" -> "B"
                          [] k = "phone" -> "555"
                          [] OTHER -> "2024-01-01T00:00:00Z"]]

BareContact == [id |-> "43", properties |-> EmptyMap]

Contacts == {FullContact, BareContact}

\* The clock readings new Date() can give
Clock == {"now1", "now2"}

Failure(e) == [ok |-> FALSE, error |-> e]

Success(id, results) == [ok |-> TRUE, id |-> id, results |-> results]

\* Everything the remote call of a request can give back
RemoteOutcomes(request) ==
    {Failure(e) : e \in Errors}
        \cup CASE request.api \in {"searchApi.doSearch", "basicApi.getPage"} ->
                    {Success(Undef, rs) : rs \in SeqsUpTo(Contacts, MaxResults)}
               [] request.api = "basicApi.create" -> {Success("42", <<>>)}
               [] OTHER -> {Success(Undef, <<>>)}

\* error.message, without the fallback
ErrorMessageNoFallback(error) == error.message

\* error?.message || 'Unknown error'
ErrorMessage(error) ==
    IF error.nullish THEN "Unknown error" ELSE OrElse(error.message, "Unknown error")

----------------------------------------------------------------------------
(* Text formatting *)

RECURSIVE Concat(_)
Concat(ss) == IF ss = <<>> THEN <<>> ELSE Head(ss) \o Concat(Tail(ss))

\* blocks.join('\n\n')
RECURSIVE Join(_)
Join(blocks) ==
    IF blocks = <<>> THEN <<>>
    ELSE IF Len(blocks) = 1 THEN Head(blocks)
    ELSE Head(blocks) \o <<"\n\n">> \o Join(Tail(blocks))

\* props.createdate ? new Date(props.createdate) : new Date(), then toLocaleString()
CreatedText(props, now) ==
    <<"toLocaleString", IF Truthy(Get(props, "createdate")) THEN Get(props, "createdate") ELSE now>>

ContactBlock(contact, now) ==
    <<"Contact ID: ", contact.id,
      "\nName: ", OrElse(Get(contact.properties, "firstname"), ""), " ",
                  OrElse(Get(contact.properties, "lastname"), ""),
      "\nEmail: ", OrElse(Get(contact.properties, "email"), "N/A"),
      "\nPhone: ", OrElse(Get(contact.properties, "phone"), "N/A"),
      "\nCreated: ">> \o CreatedText(contact.properties, now) \o <<"\n---">>

FormattedContacts(results, now) ==
    Join([i \in 1..Len(results) |-> ContactBlock(results[i], now)])

ContactFoundText(contact) ==
    <<"Contact found:\nID: ", contact.id,
      "\nEmail: ", Get(contact.properties, "email"),
      "\nName: ", OrElse(Get(contact.properties, "firstname"), ""), " ",
                  OrElse(Get(contact.properties, "lastname"), ""),
      "\nPhone: ", OrElse(Get(contact.properties, "phone"), "N/A")>>

\* JSON.stringify(properties, null, 2); the order of the keys is not modelled
PropertiesJson(properties) ==
    <<"{">>
      \o Concat([i \in 1..4 |->
            LET k == <<"email", "firstname", "lastname", "phone">>[i]
            IN  IF k \in DOMAIN properties THEN <<k, ": ", properties[k]>> ELSE <<>>])
      \o <<"}">>

TextResult(text) == [kind |-> "text", text |-> text]

FailurePrefix(tool) ==
    CASE tool = "create-contact" -> "Failed to create contact: "
      [] tool = "get-contact" -> "Failed to get contact: "
      [] tool = "search-contacts" -> "Failed to search contacts: "
      [] tool = "update-contact" -> "Failed to update contact: "
      [] tool = "delete-contact" -> "Failed to delete contact: "
      [] tool = "get-last-contacts" -> "Failed to get last contacts: "

----------------------------------------------------------------------------
(* Protocol mode: the six registered tools *)

\* A tool call's arguments; a field the caller left out is Undef.
Input(email, firstName, lastName, phone, contactId, query) ==
    [email |-> email, firstName |-> firstName, lastName |-> lastName,
     phone |-> phone, contactId |-> contactId, query |-> query]

OptionalStrings == {Undef, "", "A"}
EmailValues == {Undef, "bad", "a@b.com"}
ContactIdValues == {Undef, "7"}

ToolInputs(tool) ==
    CASE tool = "create-contact" ->
            {Input(e, f, l, p, Undef, Undef) :
                e \in EmailValues, f \in OptionalStrings,
                l \in OptionalStrings, p \in OptionalStrings}
      [] tool = "get-contact" ->
            {Input(e, Undef, Undef, Undef, Undef, Undef) : e \in EmailValues}
      [] tool = "search-contacts" ->
            {Input(Undef, Undef, Undef, Undef, Undef, q) : q \in OptionalStrings}
      [] tool = "update-contact" ->
            {Input(e, f, l, p, c, Undef) :
                e \in EmailValues, f \in OptionalStrings, l \in OptionalStrings,
                p \in OptionalStrings, c \in ContactIdValues}
      [] tool = "delete-contact" ->
            {Input(Undef, Undef, Undef, Undef, c, Undef) : c \in ContactIdValues}
      [] tool = "get-last-contacts" ->
            {Input(Undef, Undef, Undef, Undef, Undef, Undef)}

\* The shapes with z.string() where the code has z.string().email()
SchemaOkAnyString(tool, input) ==
    CASE tool \in {"create-contact", "get-contact"} -> input.email # Undef
      [] tool \in {"update-contact", "delete-contact"} -> input.contactId # Undef
      [] OTHER -> TRUE

\* The zod shape each server.tool registration declares
SchemaOk(tool, input) ==
    CASE tool = "create-contact" -> input.email # Undef /\ IsEmail(input.email)
      [] tool = "get-contact" -> input.email # Undef /\ IsEmail(input.email)
      [] tool = "search-contacts" -> TRUE
      [] tool = "update-contact" ->
            /\ input.contactId # Undef
            /\ (input.email = Undef \/ IsEmail(input.email))
      [] tool = "delete-contact" -> input.contactId # Undef
      [] tool = "get-last-contacts" -> TRUE

\* What the protocol layer answers when the arguments do not fit the shape
ValidationError(tool) ==
    [kind |-> "error", text |-> <<"Invalid arguments for tool ", tool>>]

\* if (x) properties.k = x
PutIf(properties, k, v) == IF Truthy(v) THEN Put(properties, k, v) ELSE properties

ToolCreateProperties(input) ==
    PutIf(PutIf(PutIf(Put(EmptyMap, "email", input.email),
        "firstname", input.firstName), "lastname", input.lastName), "phone", input.phone)

\* The update mapping with lastname taken from firstName
ToolUpdatePropertiesSwapped(input) ==
    PutIf(PutIf(PutIf(PutIf(EmptyMap, "email", input.email),
        "firstname", input.firstName), "lastname", input.firstName), "phone", input.phone)

ToolUpdateProperties(input) ==
    PutIf(PutIf(PutIf(PutIf(EmptyMap, "email", input.email),
        "firstname", input.firstName), "lastname", input.lastName), "phone", input.phone)

\* The page request with the query passed on to the remote call
ToolSearchRequestFiltered(query) ==
    [api |-> "basicApi.getPage", limit |-> SearchLimit, after |-> query,
     properties |-> ListProperties, propertiesWithHistory |-> Undef,
     associations |-> Undef, archived |-> FALSE]

\* hubspotClient.crm.contacts.basicApi.getPage(limit, undefined, properties, undefined, undefined, false)
ToolSearchRequest(query) ==
    [api |-> "basicApi.getPage", limit |-> SearchLimit, after |-> Undef,
     properties |-> ListProperties, propertiesWithHistory |-> Undef,
     associations |-> Undef, archived |-> FALSE]

\* The remote call a handler makes
ToolRequest(tool, input) ==
    CASE tool = "create-contact" ->
            [api |-> "basicApi.create", properties |-> ToolCreateProperties(input)]
      [] tool = "get-contact" ->
            [api |-> "searchApi.doSearch",
             filterGroups |-> <<[filters |-> <<[propertyName |-> "email",
                                                operator |-> "EQ",
                                                value |-> input.email]>>]>>,
             properties |-> <<"email", "firstname", "lastname", "phone">>,
             limit |-> GetLimit]
      [] tool = "search-contacts" -> ToolSearchRequest(input.query)
      [] tool = "update-contact" ->
            [api |-> "basicApi.update", contactId |-> input.contactId,
             properties |-> ToolUpdateProperties(input)]
      [] tool = "delete-contact" ->
            [api |-> "basicApi.archive", contactId |-> input.contactId]
      [] tool = "get-last-contacts" ->
            [api |-> "searchApi.doSearch", filterGroups |-> <<>>,
             properties |-> ListProperties, limit |-> LastLimit,
             sorts |-> <<"createdate">>]

\* The text a handler returns when the remote call resolved
ToolSuccessText(tool, input, outcome, now) ==
    CASE tool = "create-contact" ->
            <<"Contact created successfully:\nID: ", outcome.id,
              "\nEmail: ", input.email,
              "\nName: ", OrElse(input.firstName, ""), " ", OrElse(input.lastName, "")>>
      [] tool = "get-contact" ->
            IF Len(outcome.results) = 0
            THEN <<"No contact found with email: ", input.email>>
            ELSE ContactFoundText(outcome.results[1])
      [] tool = "search-contacts" ->
            <<"Last ", "10", " contacts:\n\n">> \o FormattedContacts(outcome.results, now)
      [] tool = "update-contact" ->
            <<"Contact updated successfully:\nID: ", input.contactId,
              "\nUpdated Properties: ">> \o PropertiesJson(ToolUpdateProperties(input))
      [] tool = "delete-contact" ->
            <<"Contact with ID ", input.contactId, " was successfully deleted.">>
      [] tool = "get-last-contacts" ->
            <<"Last ", "2", " contacts (sorted by creation date):\n\n">>
                \o FormattedContacts(outcome.results, now)

ToolErrorLabel(tool) ==
    CASE tool = "create-contact" -> "Error creating contact:"
      [] tool = "get-contact" -> "Error getting contact:"
      [] tool = "search-contacts" -> "Error searching contacts:"
      [] tool = "update-contact" -> "Error updating contact:"
      [] tool = "delete-contact" -> "Error deleting contact:"
      [] tool = "get-last-contacts" -> "Error getting last contacts:"

NoLog == [label |-> Undef]

\* console.error(label, error) of a handler's catch clause
ToolLog(tool, outcome) ==
    IF outcome.ok THEN NoLog ELSE [label |-> ToolErrorLabel(tool), error |-> outcome.error]

\* The catch clause of a handler
ToolFailureResult(tool, error) ==
    TextResult(<<FailurePrefix(tool), ErrorMessage(error)>>)

\* try { ... } catch (error) { ... } of a handler, once the remote call has ended
ToolResult(tool, input, outcome, now) ==
    IF outcome.ok
    THEN TextResult(ToolSuccessText(tool, input, outcome, now))
    ELSE ToolFailureResult(tool, outcome.error)

NoOutcome == [ok |-> FALSE, none |-> TRUE]
NoResult == [kind |-> "none"]
NoInput == Input(Undef, Undef, Undef, Undef, Undef, Undef)

\* No tool call received yet
IdleCall ==
    [state |-> "idle", tool |-> Undef, input |-> NoInput, request |-> NoRequest,
     issued |-> 0, outcome |-> NoOutcome, now |-> Undef, logged |-> NoLog,
     result |-> NoResult]

----------------------------------------------------------------------------
(* CLI mode: main() reading process.argv *)

CliGetLimit == 1
CliSearchLimit == 10
CliLastLimit == 2

\* const [,, command, ...args] = process.argv
Command == At(argv, 0)
Args == IF Len(argv) = 0 THEN <<>> ELSE Tail(argv)

\* The argument check left out of the delete-contact branch
NeedsFirstArgNoDelete(command) ==
    command \in {"create-contact", "get-contact", "update-contact"}

\* The branches of main() that begin with if (!args[0]) { usage; process.exit(1) }
NeedsFirstArg(command) ==
    command \in {"create-contact", "get-contact", "delete-contact", "update-contact"}

Banner == <<"HubSpot MCP Server running on stdio">>

Usage(command) ==
    CASE command = "create-contact" ->
            << <<"Usage: node build/index.js create-contact [EMAIL] [FIRSTNAME] [LASTNAME] [PHONE]">>,
               <<"Example: node build/index.js create-contact john@example.com John Doe +1234567890">> >>
      [] command = "get-contact" ->
            << <<"Usage: node build/index.js get-contact [EMAIL]">>,
               <<"Example: node build/index.js get-contact john@example.com">> >>
      [] command = "delete-contact" ->
            << <<"Usage: node build/index.js delete-contact [CONTACT_ID]">>,
               <<"Example: node build/index.js delete-contact 12345">> >>
      [] command = "update-contact" ->
            << <<"Usage: node build/index.js update-contact [CONTACT_ID] --email [EMAIL] --firstName [FIRSTNAME] --lastName [LASTNAME] --phone [PHONE]">>,
               <<"Example: node build/index.js update-contact 12345 --email new@example.com --firstName John --lastName Doe --phone +1234567890">> >>

CliCreateProperties(args) ==
    PutIf(PutIf(PutIf(Put(EmptyMap, "email", At(args, 0)),
        "firstname", At(args, 1)), "lastname", At(args, 2)), "phone", At(args, 3))

\* The switch with the flag's own spelling as the property key
FlagKeyCamel(flag) ==
    CASE flag = "--email" -> "email"
      [] flag = "--firstName" -> "firstName"
      [] flag = "--lastName" -> "lastName"
      [] flag = "--phone" -> "phone"
      [] OTHER -> Undef

\* The switch (flag) of the update-contact branch
FlagKey(flag) ==
    CASE flag = "--email" -> "email"
      [] flag = "--firstName" -> "firstname"
      [] flag = "--lastName" -> "lastname"
      [] flag = "--phone" -> "phone"
      [] OTHER -> Undef

\* The loop with break where the code has continue
RECURSIVE ParseFlagsBreak(_, _, _)
ParseFlagsBreak(updateArgs, i, properties) ==
    IF ~(i < Len(updateArgs)) THEN properties
    ELSE LET flag == At(updateArgs, i)
             value == At(updateArgs, i + 1)
         IN  IF ~Truthy(value) THEN properties
             ELSE IF FlagKey(flag) # Undef
                  THEN ParseFlagsBreak(updateArgs, i + 2, Put(properties, FlagKey(flag), value))
                  ELSE ParseFlagsBreak(updateArgs, i + 2, properties)

\* for (let i = 0; i < updateArgs.length; i += 2) { ... }
RECURSIVE ParseFlags(_, _, _)
ParseFlags(updateArgs, i, properties) ==
    IF ~(i < Len(updateArgs)) THEN properties
    ELSE LET flag == At(updateArgs, i)
             value == At(updateArgs, i + 1)
         IN  IF ~Truthy(value) THEN ParseFlags(updateArgs, i + 2, properties)
             ELSE IF FlagKey(flag) # Undef
                  THEN ParseFlags(updateArgs, i + 2, Put(properties, FlagKey(flag), value))
                  ELSE ParseFlags(updateArgs, i + 2, properties)

\* const [contactId, ...updateArgs] = args
CliUpdateProperties(args) == ParseFlags(Tail(args), 0, EmptyMap)

\* The remote call a command's branch makes
CliRequest(command, args) ==
    CASE command = "create-contact" ->
            [api |-> "basicApi.create", properties |-> CliCreateProperties(args)]
      [] command = "get-contact" ->
            [api |-> "searchApi.doSearch",
             filterGroups |-> <<[filters |-> <<[propertyName |-> "email",
                                                operator |-> "EQ",
                                                value |-> At(args, 0)]>>]>>,
             properties |-> <<"email", "firstname", "lastname", "phone">>,
             limit |-> CliGetLimit]
      [] command = "delete-contact" ->
            [api |-> "basicApi.archive", contactId |-> At(args, 0)]
      [] command = "search-contacts" ->
            [api |-> "basicApi.getPage", limit |-> CliSearchLimit, after |-> Undef,
             properties |-> ListProperties, propertiesWithHistory |-> Undef,
             associations |-> Undef, archived |-> FALSE]
      [] command = "update-contact" ->
            [api |-> "basicApi.update", contactId |-> At(args, 0),
             properties |-> CliUpdateProperties(args)]
      [] command = "get-last-contacts" ->
            [api |-> "searchApi.doSearch", filterGroups |-> <<>>,
             properties |-> ListProperties, limit |-> CliLastLimit,
             sorts |-> <<"createdate">>]

\* The console.log lines of the forEach over response.results
CliContactLines(contact, now) ==
    << <<"Contact ID: ", contact.id>>,
       <<"Name: ", OrElse(Get(contact.properties, "firstname"), ""), " ",
                   OrElse(Get(contact.properties, "lastname"), "")>>,
       <<"Email: ", OrElse(Get(contact.properties, "email"), "N/A")>>,
       <<"Phone: ", OrElse(Get(contact.properties, "phone"), "N/A")>>,
       <<"Created: ">> \o CreatedText(contact.properties, now),
       <<"---\n">> >>

CliListLines(results, now) ==
    Concat([i \in 1..Len(results) |-> CliContactLines(results[i], now)])

\* What a branch prints with console.log when the remote call resolved
CliSuccessLines(command, args, outcome, now) ==
    CASE command = "create-contact" ->
            << <<"Contact created successfully:\nID: ", outcome.id,
                 "\nEmail: ", At(args, 0),
                 "\nName: ", OrElse(At(args, 1), ""), " ", OrElse(At(args, 2), "")>> >>
      [] command = "get-contact" ->
            IF Len(outcome.results) = 0
            THEN << <<"No contact found with email: ", At(args, 0)>> >>
            ELSE << ContactFoundText(outcome.results[1]) >>
      [] command = "delete-contact" ->
            << <<"Contact with ID ", At(args, 0), " deleted successfully.">> >>
      [] command = "search-contacts" ->
            << <<"\nLast 10 contacts:\n">> >> \o CliListLines(outcome.results, now)
      [] command = "update-contact" ->
            << <<"Contact updated successfully:\nID: ", At(args, 0),
                 "\nUpdated Properties: ">> \o PropertiesJson(CliUpdateProperties(args)) >>
      [] command = "get-last-contacts" ->
            << <<"\nLast 2 contacts (sorted by creation date):\n">> >>
                \o CliListLines(outcome.results, now)

CliErrorLabel(command) ==
    CASE command = "create-contact" -> "Error creating contact:"
      [] command = "get-contact" -> "Error getting contact:"
      [] command = "delete-contact" -> "Error deleting contact:"
      [] command = "search-contacts" -> "Error searching contacts:"
      [] command = "update-contact" -> "Error updating contact:"
      [] command = "get-last-contacts" -> "Error getting last contacts:"

\* The catch clause of a branch: console.error(label, error?.message || 'Unknown error')
CliFailureLine(command, error) == <<CliErrorLabel(command), ErrorMessage(error)>>

\* process.exit(0) in the catch clause too
CliExitStatusAlwaysZero(outcome) == 0

\* An empty result list taken for a failure
CliExitStatusEmptyFails(outcome) ==
    IF outcome.ok /\ outcome.results # <<>> THEN 0 ELSE 1

\* The status a branch hands to process.exit once the remote call has ended
CliExitStatus(outcome) == IF outcome.ok THEN 0 ELSE 1

----------------------------------------------------------------------------
(* Command lines the process is launched with *)

Commands == ToolNames

FlagTokens == {"--email", "--firstName", "--lastName", "--phone", "--verbose", "", "a@b.com"}

Cmd(command, argSet) == {<<command>> \o args : args \in argSet}

\* Every shape of update-contact command line, up to MaxArgs tokens after the id
UpdateArgvs ==
    Cmd("update-contact", {<<>>, <<"">>})
        \cup Cmd("update-contact", {<<"7">> \o fs : fs \in SeqsUpTo(FlagTokens, MaxArgs)})

CliArgvs ==
    {<<>>, <<"help">>}
        \cup Cmd("create-contact", SeqsUpTo({"", "a@b.com", "bad", "A"}, 4))
        \cup Cmd("get-contact", SeqsUpTo({"", "a@b.com", "bad"}, 1))
        \cup Cmd("delete-contact", SeqsUpTo({"", "7"}, 1))
        \cup Cmd("search-contacts", SeqsUpTo({"A"}, 1))
        \cup Cmd("get-last-contacts", {<<>>})
        \cup UpdateArgvs

\* The launches checked together with protocol traffic
ServerArgvs ==
    {<<>>, <<"help">>}
        \cup Cmd("create-contact", SeqsUpTo({"", "a@b.com"}, 2))
        \cup Cmd("get-contact", SeqsUpTo({"", "a@b.com"}, 1))
        \cup Cmd("delete-contact", SeqsUpTo({"", "7"}, 1))
        \cup Cmd("search-contacts", {<<>>})
        \cup Cmd("get-last-contacts", {<<>>})
        \cup Cmd("update-contact",
                 {<<>>, <<"7">>, <<"7", "--email", "a@b.com">>, <<"7", "--phone">>})

----------------------------------------------------------------------------
(* The process *)

Running == mainPc # "exited"

InitWith(argvs) ==
    /\ argv \in argvs
    /\ mainPc = "start"
    /\ serving = FALSE
    /\ cliRequest = NoRequest
    /\ cliCalls = 0
    /\ cliOutcome = NoOutcome
    /\ exitCode = {}
    /\ stdout = <<>>
    /\ stderr = <<>>
    /\ call = IdleCall

Init == InitWith(ServerArgvs)

InitCli == InitWith(CliArgvs)

\* await server.connect(transport)
Connect ==
    /\ mainPc = "start"
    /\ mainPc' = "connected"
    /\ serving' = TRUE
    /\ UNCHANGED <<argv, cliRequest, cliCalls, cliOutcome, exitCode, stdout, stderr, call>>

\* main() from the banner to the first of: falling off its end, process.exit(1)
\* after the usage text, the await of the remote call
MainDispatch ==
    /\ mainPc = "connected"
    /\ IF Command \notin Commands
       THEN /\ mainPc' = "returned"
            /\ stderr' = Append(stderr, Banner)
            /\ UNCHANGED <<cliRequest, cliCalls, exitCode>>
       ELSE IF NeedsFirstArg(Command) /\ ~Truthy(At(Args, 0))
       THEN /\ mainPc' = "exited"
            /\ stderr' = Append(stderr, Banner) \o Usage(Command)
            /\ exitCode' = {1}
            /\ UNCHANGED <<cliRequest, cliCalls>>
       ELSE /\ mainPc' = "await"
            /\ stderr' = Append(stderr, Banner)
            /\ cliRequest' = CliRequest(Command, Args)
            /\ cliCalls' = cliCalls + 1
            /\ UNCHANGED exitCode
    /\ UNCHANGED <<argv, serving, cliOutcome, stdout, call>>

\* The remote call of main() ends; the branch prints and calls process.exit
CliRemoteReturn ==
    /\ mainPc = "await"
    /\ \E outcome \in RemoteOutcomes(cliRequest), now \in Clock :
        /\ cliOutcome' = outcome
        /\ IF outcome.ok
           THEN /\ stdout' = stdout \o CliSuccessLines(Command, Args, outcome, now)
                /\ UNCHANGED stderr
           ELSE /\ stderr' = Append(stderr, CliFailureLine(Command, outcome.error))
                /\ UNCHANGED stdout
        /\ exitCode' = {CliExitStatus(outcome)}
    /\ mainPc' = "exited"
    /\ UNCHANGED <<argv, serving, cliRequest, cliCalls, call>>

\* A tools/call request arrives: the arguments are checked against the tool's
\* shape, then the handler runs up to its await of the remote call
ReceiveToolCall ==
    /\ serving
    /\ Running
    /\ call.state = "idle"
    /\ \E tool \in ToolNames :
        \E input \in ToolInputs(tool) :
            call' = IF SchemaOk(tool, input)
                    THEN [state |-> "pending", tool |-> tool, input |-> input,
                          request |-> ToolRequest(tool, input), issued |-> 1,
                          outcome |-> NoOutcome, now |-> Undef, logged |-> NoLog,
                          result |-> NoResult]
                    ELSE [state |-> "answered", tool |-> tool, input |-> input,
                          request |-> NoRequest, issued |-> 0,
                          outcome |-> NoOutcome, now |-> Undef, logged |-> NoLog,
                          result |-> ValidationError(tool)]
    /\ UNCHANGED <<argv, mainPc, serving, cliRequest, cliCalls, cliOutcome,
                   exitCode, stdout, stderr>>

\* The remote call of a handler ends; the handler returns its result
ToolRemoteReturn ==
    /\ Running
    /\ call.state = "pending"
    /\ \E outcome \in RemoteOutcomes(call.request), now \in Clock :
        call' = [call EXCEPT !.state = "answered",
                             !.outcome = outcome,
                             !.now = now,
                             !.logged = ToolLog(call.tool, outcome),
                             !.result = ToolResult(call.tool, call.input, outcome, now)]
    /\ UNCHANGED <<argv, mainPc, serving, cliRequest, cliCalls, cliOutcome,
                   exitCode, stdout, stderr>>

\* The answer is written to the transport; the loop is ready for the next request
SendResponse ==
    /\ Running
    /\ call.state = "answered"
    /\ call' = IdleCall
    /\ UNCHANGED <<argv, mainPc, serving, cliRequest, cliCalls, cliOutcome,
                   exitCode, stdout, stderr>>

Next ==
    \/ Connect
    \/ MainDispatch
    \/ CliRemoteReturn
    \/ ReceiveToolCall
    \/ ToolRemoteReturn
    \/ SendResponse

Spec == Init /\ [][Next]_vars

\* The process launched from a shell, with no protocol client on its stdin
NextCli ==
    \/ Connect
    \/ MainDispatch
    \/ CliRemoteReturn

SpecCli == InitCli /\ [][NextCli]_vars

----------------------------------------------------------------------------
(* Claims about protocol mode *)

\* The handler of the call being handled made its remote call and the call failed
RemoteFailed == call.state = "answered" /\ call.request # NoRequest /\ ~call.outcome.ok

C1_Prefix ==
    [t \in ToolNames |->
        CASE t = "create-contact" -> "Failed to create contact: "
          [] t = "get-contact" -> "Failed to get contact: "
          [] t = "search-contacts" -> "Failed to search contacts: "
          [] t = "update-contact" -> "Failed to update contact: "
          [] t = "delete-contact" -> "Failed to delete contact: "
          [] OTHER -> "Failed to get last contacts: "]

C1_Message(error) ==
    IF ~error.nullish /\ error.message # Undef /\ error.message # ""
    THEN error.message
    ELSE "Unknown error"

\* C1: when the remote call of a tool handler fails, the handler returns a text
\* result made of the tool's failure prefix and the error's message, or
\* 'Unknown error' when the error has no message or an empty one, and the remote
\* call has been issued once only.
C1_FailureIsReported ==
    RemoteFailed =>
        /\ call.result = [kind |-> "text",
                          text |-> <<C1_Prefix[call.tool], C1_Message(call.outcome.error)>>]
        /\ call.issued = 1

C1_Witness ==
    /\ RemoteFailed
    /\ call.tool = "delete-contact"
    /\ ~call.outcome.error.nullish
    /\ call.outcome.error.message = Undef
    /\ call.result.text = <<"Failed to delete contact: ", "Unknown error">>

\* The arguments of the call being handled do not fit the shape its tool declares
C2_Malformed ==
    /\ call.state # "idle"
    /\ \/ /\ call.tool \in {"create-contact", "get-contact"}
          /\ call.input.email \notin EmailShaped
       \/ /\ call.tool = "update-contact"
          /\ \/ call.input.contactId = Undef
             \/ call.input.email \notin EmailShaped \cup {Undef}
       \/ /\ call.tool = "delete-contact"
          /\ call.input.contactId = Undef

\* C2: a tool call whose arguments do not fit the tool's declared shape is
\* answered without the handler running: no remote call is issued for it, and
\* its answer is an error payload, not the text a failed remote call produces.
C2_MalformedIsRejected ==
    C2_Malformed =>
        /\ call.state = "answered"
        /\ call.request = NoRequest
        /\ call.issued = 0
        /\ call.result.kind = "error"
        /\ call.result # [kind |-> "text",
                          text |-> <<C1_Prefix[call.tool], "Unknown error">>]

C2_Witness ==
    /\ call.state = "answered"
    /\ call.tool = "create-contact"
    /\ call.input.email = "bad"
    /\ call.result.kind = "error"

C4_Fields ==
    [k \in {"email", "firstname", "lastname", "phone"} |->
        CASE k = "email" -> call.input.email
          [] k = "firstname" -> call.input.firstName
          [] k = "lastname" -> call.input.lastName
          [] OTHER -> call.input.phone]

C4_Issued ==
    /\ call.state \in {"pending", "answered"}
    /\ call.request # NoRequest
    /\ call.tool \in {"create-contact", "update-contact"}

\* C4 as first stated: the mapping sent by update-contact and create-contact
\* has a key exactly for each field the request supplied, whatever its value.
C4_KeyIffSupplied ==
    C4_Issued =>
        \A k \in DOMAIN C4_Fields :
            /\ k \in DOMAIN call.request.properties <=> C4_Fields[k] # Undef
            /\ k \in DOMAIN call.request.properties =>
                    call.request.properties[k] = C4_Fields[k]

\* C4: the mapping sent by update-contact and create-contact has a key exactly
\* for each field the request supplied with a non-empty value, set to that
\* value; update-contact with no such field sends the empty mapping, and
\* create-contact with only email sends exactly the key email.
C4_KeyIffSuppliedNonEmpty ==
    C4_Issued =>
        /\ call.issued = 1
        /\ call.request.api =
                (IF call.tool = "create-contact" THEN "basicApi.create" ELSE "basicApi.update")
        /\ \A k \in DOMAIN C4_Fields :
            /\ k \in DOMAIN call.request.properties <=> C4_Fields[k] \notin {Undef, ""}
            /\ k \in DOMAIN call.request.properties =>
                    call.request.properties[k] = C4_Fields[k]
        /\ DOMAIN call.request.properties \subseteq DOMAIN C4_Fields
        /\ call.tool = "create-contact" => "email" \in DOMAIN call.request.properties

C4_Witness ==
    /\ C4_Issued
    /\ call.tool = "update-contact"
    /\ call.input.firstName = ""
    /\ call.input.lastName = "A"
    /\ call.input.email = Undef
    /\ call.input.phone = Undef
    /\ DOMAIN call.request.properties = {"lastname"}

\* The remote call of the call being handled gave no contact
C5_ToolEmpty ==
    /\ call.state = "answered"
    /\ call.request # NoRequest
    /\ call.tool \in {"get-contact", "search-contacts", "get-last-contacts"}
    /\ call.outcome.ok
    /\ call.outcome.results = <<>>

\* The remote call of main() gave no contact
C5_CliEmpty ==
    /\ mainPc = "exited"
    /\ Command \in {"get-contact", "search-contacts", "get-last-contacts"}
    /\ cliOutcome.ok
    /\ cliOutcome.results = <<>>

\* C5: a remote call that succeeds with zero contacts is a success: the tool
\* result is 'No contact found with email: <email>' for get-contact and the bare
\* list header for search-contacts and get-last-contacts, and main() exits 0.
C5_EmptyIsSuccess ==
    /\ C5_ToolEmpty =>
            call.result =
                [kind |-> "text",
                 text |-> CASE call.tool = "get-contact" ->
                                <<"No contact found with email: ", call.input.email>>
                            [] call.tool = "search-contacts" ->
                                <<"Last ", "10", " contacts:\n\n">>
                            [] OTHER ->
                                <<"Last ", "2", " contacts (sorted by creation date):\n\n">>]
    /\ C5_CliEmpty => exitCode = {0}

C5_Witness ==
    /\ C5_ToolEmpty
    /\ call.tool = "get-contact"
    /\ C5_CliEmpty
    /\ Command = "get-contact"
    /\ stdout = << <<"No contact found with email: ", "a@b.com">> >>

\* C6: the page request of search-contacts asks for 10 contacts and carries
\* nothing of the query, and with any other query the handler would have
\* issued the same request and, from the same response, returned the same result.
C6_QueryIsIgnored ==
    (call.tool = "search-contacts" /\ call.state \in {"pending", "answered"}) =>
        /\ call.request.api = "basicApi.getPage"
        /\ call.request.limit = 10
        /\ call.request.after = Undef
        /\ "filterGroups" \notin DOMAIN call.request
        /\ \A q \in OptionalStrings :
            LET other == [call.input EXCEPT !.query = q]
            IN  /\ ToolRequest(call.tool, other) = call.request
                /\ call.state = "answered" =>
                        ToolResult(call.tool, other, call.outcome, call.now) = call.result

C6_Witness ==
    /\ call.tool = "search-contacts"
    /\ call.state = "answered"
    /\ call.input.query = "A"
    /\ call.outcome.ok
    /\ Len(call.outcome.results) = 1

----------------------------------------------------------------------------
(* Claims about CLI mode *)

C3_UsageLine ==
    [c \in {"create-contact", "get-contact", "delete-contact", "update-contact"} |->
        CASE c = "create-contact" ->
                "Usage: node build/index.js create-contact [EMAIL] [FIRSTNAME] [LASTNAME] [PHONE]"
          [] c = "get-contact" -> "Usage: node build/index.js get-contact [EMAIL]"
          [] c = "delete-contact" -> "Usage: node build/index.js delete-contact [CONTACT_ID]"
          [] OTHER ->
                "Usage: node build/index.js update-contact [CONTACT_ID] --email [EMAIL] --firstName [FIRSTNAME] --lastName [LASTNAME] --phone [PHONE]"]

\* The command needs a first argument and the command line has none
C3_MissingFirstArg ==
    /\ Len(argv) = 1
    /\ argv[1] \in DOMAIN C3_UsageLine

\* C3: a create-contact, get-contact, delete-contact or update-contact command
\* without its first argument never makes main() issue a remote call, and once
\* main() has read the command line the usage text is on the error stream and
\* the process has exited with status 1.
C3_MissingArgIsUsageError ==
    C3_MissingFirstArg =>
        /\ cliCalls = 0
        /\ cliRequest = NoRequest
        /\ mainPc \in {"start", "connected", "exited"}
        /\ mainPc = "exited" =>
            /\ exitCode = {1}
            /\ \E i \in 1..Len(stderr) : stderr[i] = <<C3_UsageLine[argv[1]]>>
            /\ stdout = <<>>

C3_Witness ==
    /\ argv = <<"update-contact">>
    /\ mainPc = "exited"
    /\ exitCode = {1}
    /\ Len(stderr) = 3

\* The command is one of the six and its required first argument is present:
\* there and not the empty string, which if (!email) takes for a missing one
C7_Runnable ==
    /\ Len(argv) >= 1
    /\ argv[1] \in ToolNames
    /\ argv[1] \in DOMAIN C3_UsageLine => (Len(argv) >= 2 /\ argv[2] # "")

\* C7: launched with one of the six commands and its required argument, main()
\* issues one remote call, never ends without process.exit, and exits with 0
\* exactly when that call succeeded and with 1 when it failed.
C7_OneCallThenExit ==
    C7_Runnable =>
        /\ mainPc # "returned"
        /\ cliCalls = (IF mainPc \in {"await", "exited"} THEN 1 ELSE 0)
        /\ mainPc \in {"await", "exited"} => cliRequest # NoRequest
        /\ mainPc = "exited" <=> exitCode # {}
        /\ mainPc = "exited" =>
            /\ cliOutcome # NoOutcome
            /\ exitCode = (IF cliOutcome.ok THEN {0} ELSE {1})

C7_Witness ==
    /\ C7_Runnable
    /\ argv[1] = "get-last-contacts"
    /\ mainPc = "exited"
    /\ ~cliOutcome.ok
    /\ exitCode = {1}
    /\ call.state = "answered"

\* C8: every tool call the protocol loop accepted gets its answer, and no
\* failed operation ends the process while the protocol loop is serving.
C8_LoopOutlivesFailures ==
    /\ mainPc = "exited" => call.state # "pending"
    /\ ~(serving /\ mainPc = "exited" /\ cliCalls = 1 /\ ~cliOutcome.ok)

C9_Flags == {"--email", "--firstName", "--lastName", "--phone"}

\* The tokens after the contact id are (flag, value) pairs, each flag one of the
\* four and used once
C9_WellFormed(updateArgs) ==
    /\ Len(updateArgs) % 2 = 0
    /\ \A i \in 1..Len(updateArgs) :
            i % 2 = 1 =>
                /\ updateArgs[i] \in C9_Flags
                /\ \A j \in 1..Len(updateArgs) :
                        (j % 2 = 1 /\ j # i) => updateArgs[j] # updateArgs[i]

C9_FlagValue(updateArgs, flag) ==
    IF \E i \in 1..Len(updateArgs) : i % 2 = 1 /\ updateArgs[i] = flag
    THEN updateArgs[(CHOOSE i \in 1..Len(updateArgs) : i % 2 = 1 /\ updateArgs[i] = flag) + 1]
    ELSE Undef

C9_Arg(i) == IF Len(argv) >= i + 1 THEN argv[i + 1] ELSE Undef

\* The tool arguments that say what the command line says
C9_Input ==
    CASE argv[1] = "create-contact" ->
            Input(C9_Arg(1), C9_Arg(2), C9_Arg(3), C9_Arg(4), Undef, Undef)
      [] argv[1] = "get-contact" -> Input(C9_Arg(1), Undef, Undef, Undef, Undef, Undef)
      [] argv[1] = "delete-contact" -> Input(Undef, Undef, Undef, Undef, C9_Arg(1), Undef)
      [] argv[1] = "update-contact" ->
            LET updateArgs == SubSeq(argv, 3, Len(argv))
            IN  Input(C9_FlagValue(updateArgs, "--email"),
                      C9_FlagValue(updateArgs, "--firstName"),
                      C9_FlagValue(updateArgs, "--lastName"),
                      C9_FlagValue(updateArgs, "--phone"), C9_Arg(1), Undef)
      [] OTHER -> NoInput

\* The command line is one main() runs and its content is one the tool's shape admits
C9_BothAccept ==
    /\ C7_Runnable
    /\ argv[1] = "update-contact" => C9_WellFormed(SubSeq(argv, 3, Len(argv)))
    /\ SchemaOk(argv[1], C9_Input)

\* C9: for the same operation and the same input, main() issues the remote call
\* the tool handler issues, exits 0 where the handler returns its success text,
\* and exits 1 with the handler's message on the error stream where the handler
\* returns its failure text.
C9_CliMatchesTool ==
    (C9_BothAccept /\ mainPc \in {"await", "exited"}) =>
        /\ cliRequest = ToolRequest(argv[1], C9_Input)
        /\ mainPc = "exited" =>
            LET result == ToolResult(argv[1], C9_Input, cliOutcome, "now1")
            IN  /\ result.kind = "text"
                /\ exitCode = {0} <=> (cliOutcome.ok /\ result.text[1] # C1_Prefix[argv[1]])
                /\ exitCode = {1} <=>
                        /\ ~cliOutcome.ok
                        /\ result.text[1] = C1_Prefix[argv[1]]
                        /\ stderr[Len(stderr)][2] = result.text[2]

C9_Witness ==
    /\ argv = <<"update-contact", "7", "--firstName", "a@b.com", "--email", "a@b.com">>
    /\ mainPc = "exited"
    /\ exitCode = {1}
    /\ stderr[Len(stderr)] = <<"Error updating contact:", "Boom">>
    /\ cliRequest.properties = [k \in {"email", "firstname"} |-> "a@b.com"]

C10_Key ==
    [f \in C9_Flags |->
        CASE f = "--email" -> "email"
          [] f = "--firstName" -> "firstname"
          [] f = "--lastName" -> "lastname"
          [] OTHER -> "phone"]

\* The pairs (counted from 0) whose flag is f and whose value is present: there
\* and not the empty string, which if (!value) takes for a missing one
C10_Hits(updateArgs, f) ==
    {i \in 0..Len(updateArgs) :
        /\ 2 * i + 2 <= Len(updateArgs)
        /\ updateArgs[2 * i + 1] = f
        /\ updateArgs[2 * i + 2] # ""}

C10_Last(hits) == CHOOSE i \in hits : \A j \in hits : j <= i

C10_Expected(updateArgs) ==
    LET used == {f \in C9_Flags : C10_Hits(updateArgs, f) # {}}
    IN  [k \in {C10_Key[f] : f \in used} |->
            LET f == CHOOSE g \in used : C10_Key[g] = k
            IN  updateArgs[2 * C10_Last(C10_Hits(updateArgs, f)) + 2]]

\* C10: update-contact on the command line reads the tokens after the contact id
\* as pairs at positions (0,1), (2,3), ...; each pair with one of the four flags
\* and a value sets that flag's key, a later pair overriding an earlier one; any
\* other pair sets nothing and the pairs after it are still read; the update
\* call is issued with the mapping so built.
C10_FlagPairs ==
    (Len(argv) >= 2 /\ argv[1] = "update-contact" /\ argv[2] # ""
        /\ mainPc \in {"await", "exited"}) =>
        /\ cliCalls = 1
        /\ cliRequest = [api |-> "basicApi.update", contactId |-> argv[2],
                         properties |-> C10_Expected(SubSeq(argv, 3, Len(argv)))]

C10_WitnessSkipped ==
    /\ argv = <<"update-contact", "7", "--verbose", "a@b.com", "--phone", "--email">>
    /\ mainPc = "await"
    /\ cliRequest.properties = [k \in {"phone"} |-> "--email"]

C10_Witness ==
    /\ argv = <<"update-contact", "7", "--email", "a@b.com", "--email", "--phone">>
    /\ mainPc = "await"
    /\ cliRequest.properties = [k \in {"email"} |-> "--phone"]

====
